---- MODULE Spec2Model ----
(***************************************************************************)
(* Model of the retrieval-augmented chat backend.                          *)
(*                                                                         *)
(* Part 1 (specification Spec): RAGEngine.process_message and the graph    *)
(* built by RAGEngine._build_graph (app/rag/engine.py): the nodes          *)
(* call_model and tools, the tools_condition edge, and the checkpointer    *)
(* that stores the channel "messages" under the thread id after the input  *)
(* and after every node.  Several requests may be in flight at once; each  *)
(* works on the history it loaded and overwrites the stored one.           *)
(*                                                                         *)
(* Part 2 (specification SearchSpec): the vector stores                    *)
(* (app/vector_store/mongodb_store.py, app/vector_store/faiss_store.py):   *)
(* add_documents and similarity_search on each of their code paths.        *)
(* Embeddings are small integer vectors; a similarity is kept exactly, as  *)
(* the signed square of the cosine, which orders as the cosine does.       *)
(*                                                                         *)
(* Part 3 (specification CheckpointerSpec): MongoDBCheckpointer            *)
(* (app/db/checkpointer.py) on the collection db.conversations, with the   *)
(* unique index init_database (app/db/mongodb.py) creates on it.           *)
(*                                                                         *)
(* Part 4 (specification InsertSpec): MongoDBVectorStore.add_documents and *)
(* the places where a call can raise.                                      *)
(*                                                                         *)
(* Part 5 (specification IngestSpec): process_and_store_documents          *)
(* (app/document_processing/processor.py), one call on an empty database.  *)
(*                                                                         *)
(* Part 6 (specification ChatSpec): the retrieval tool as a chat request   *)
(* of a user reaches it (app/api/chat.py, app/rag/engine.py).              *)
(*                                                                         *)
(* Part 7 (specification LoopSpec): the supersteps of one run of the       *)
(* graph, under the assumption that every superstep that can run does.     *)
(*                                                                         *)
(* Part 8 (specification ApiSpec): the HTTP handlers for conversations     *)
(* and file upload (app/api/chat.py, app/api/documents.py).                *)
(***************************************************************************)
EXTENDS Integers, Sequences, FiniteSets, TLC

\* ------------------------------------------------------------------ bounds
NReq == 2            \* chat requests issued in one behaviour
MaxCallIds == 2      \* tool call ids the language model hands out in one behaviour
MaxCallsPerTurn == 2 \* tool calls carried by one assistant message
MaxDocs == 3         \* records held by the vector store
MaxK == 2            \* largest limit k of a search
MaxInsert == 2       \* records handed to one call of add_documents
MaxDocsPerCall == 2  \* documents handed to one call of process_and_store_documents
MaxChunksPerDoc == 2 \* chunks the text splitter cuts one document into
MaxTurns == 13       \* consecutive turns in which the model requests tools
NConversations == 2  \* conversation ids the API hands out
NStoreThreads == 2   \* thread ids saved through MongoDBCheckpointer

Requests == 1..NReq
NoThread == "none"                 \* thread_id=None (or "") at the call
SuppliedThreads == {"t1"}          \* thread ids a caller supplies
GeneratedThreads == {"uuid" \o ToString(i) : i \in 1..NReq}
ThreadIds == SuppliedThreads \cup GeneratedThreads
AiTexts == {"ans"}                 \* contents of plain assistant answers
SearchOutcomes == {"found", "empty", "raise"}  \* similarity_search as seen by retrieve
ToolUserIds == {"none"}            \* user_id argument the model puts in a tool call

VARIABLES
    checkpoint,   \* thread id -> stored value of the channel "messages"
    pc,           \* request -> position in process_message / the graph
    thread,       \* request -> thread id used for config (line 193)
    supplied,     \* request -> thread_id argument of the call
    human,        \* request -> the HumanMessage built at lines 196-204
    messages,     \* request -> the request's channel "messages"
    result,       \* request -> the pair returned by process_message
    nextCall,     \* next tool call id of the language model
    nextUuid,     \* number of uuid4() values drawn so far
    loaded,       \* history: request -> what the checkpointer returned at the start
    lastPut,      \* history: request -> what the request last stored
    store,        \* which vector store the deployment runs: its kind and path
    docs,         \* the records of the vector store, in insertion order
    search,       \* the last call of similarity_search and what it returned
    conversations,  \* the documents MongoDBCheckpointer keeps in db.conversations
    uniqueIndex,  \* whether db.conversations has the unique index on conversation_id
    saved,        \* history: thread id -> the state of its last put that returned
    storeOp,      \* the last call of MongoDBCheckpointer and how it ended
    add,          \* the last call of add_documents as its caller sees it
    prevAdd,      \* the call of add_documents before the last one
    upload,       \* the call of process_and_store_documents and how it ended
    records,      \* the document records of db.documents, by document id
    chat,         \* the last chat request that ran the retrieval tool
    loop,         \* one run of the graph: its position and supersteps
    convs,        \* the conversation records the API keeps in db.conversations
    http          \* the last request of the HTTP handlers and its response

engineVars == <<checkpoint, pc, thread, supplied, human, messages, result, nextCall,
                nextUuid, loaded, lastPut>>

searchVars == <<store, docs, search>>

stateVars == <<conversations, uniqueIndex, saved, storeOp>>

insertVars == <<add, prevAdd>>

ingestVars == <<upload, records>>

apiVars == <<convs, http>>

restVars == <<insertVars, ingestVars, chat, loop, apiVars>>

vars == <<engineVars, searchVars, stateVars, restVars>>

\* ---------------------------------------------------------------- messages
Msg(t, c, calls, id) == [type |-> t, content |-> c, tool_calls |-> calls, tool_call_id |-> id]

HumanMessage(c) == Msg("human", c, <<>>, 0)

SystemMessage == Msg("system", "You are a helpful AI assistant", <<>>, 0)

AIMessage(c, calls) == Msg("ai", c, calls, 0)

ToolMessage(c, id) == Msg("tool", c, <<>>, id)

NoResult == [response |-> "", thread_id |-> "", error |-> "none"]

Last(s) == s[Len(s)]

IsPrefix(s, t) == Len(s) <= Len(t) /\ SubSeq(t, 1, Len(s)) = s

\* a reducer that overwrites the channel instead of appending to it
add_messages_overwrite(left, right) == right

\* the messages reducer of MessagesState: new messages (fresh ids) are appended
add_messages(left, right) == left \o right

\* ------------------------------------------------------------ retrieve tool
\* a tool that hands back an empty string unless documents were found
retrieve_blank(outcome, user_id) ==
    IF outcome = "found" THEN "Document 1: Source Similarity Content" ELSE ""

\* retrieve(query, user_id): the text handed back as the tool's output
retrieve(outcome, user_id) ==
    CASE outcome = "raise" -> "Error retrieving documents: search failed"
      [] outcome = "empty" /\ user_id # "none" ->
            "No relevant documents found for this query in your personal knowledge base. You may want to upload some documents first."
      [] outcome = "empty" /\ user_id = "none" ->
            "No relevant documents found for this query in the knowledge base."
      [] OTHER -> "Document 1: Source Similarity Content"

\* ----------------------------------------------------------------- the graph
\* call_model without the injection of lines 132-141
ModelMessages_noinject(msgs) == msgs

\* what call_model hands to the language model: the system message is put
\* in front of the local list only, it is not part of the returned update
ModelMessages(msgs) ==
    IF \E i \in 1..Len(msgs) : msgs[i].type = "system"
    THEN msgs
    ELSE <<SystemMessage>> \o msgs

\* the update call_model returns for a response of the language model
call_model(response) == <<response>>

\* tool call ids of a response carrying n calls, in the order requested
NewCallIds(n) == [i \in 1..n |-> nextCall + i - 1]

\* an edge that always ends the graph
tools_condition_end(msgs) == "END"

\* tools_condition: route on the last message of the state
tools_condition(msgs) ==
    IF Len(msgs) > 0 /\ Last(msgs).type = "ai" /\ Len(Last(msgs).tool_calls) > 0
    THEN "tools"
    ELSE "END"

\* a tool node that hands nothing back
ToolNode_none(msgs, outs) == <<>>

\* a tool node answering only the first call of the message
ToolNode_first(msgs, outs) ==
    <<ToolMessage(outs[1], Last(msgs).tool_calls[1])>>

\* a tool node stamping every answer with the id of the first call
ToolNode_sameid(msgs, outs) ==
    [i \in 1..Len(Last(msgs).tool_calls) |-> ToolMessage(outs[i], Last(msgs).tool_calls[1])]

\* ToolNode: one ToolMessage per tool call of the last AI message, in order,
\* each carrying the id of its call; outs[i] is the text retrieve returned
ToolNode(msgs, outs) ==
    [i \in 1..Len(Last(msgs).tool_calls) |-> ToolMessage(outs[i], Last(msgs).tool_calls[i])]

\* the text built in the except branch of process_message
ErrorResponse(e) ==
    "I encountered a technical issue while processing your request: " \o e
    \o ". This might be due to vector store connectivity or configuration issues. "
    \o "Please check that your mongodb vector store is properly configured."

\* the response taken from the message before the last one
Response_prev(msgs) == msgs[Len(msgs) - 1].content

\* what process_message returns from its try branch
Response(msgs) == Last(msgs).content

\* a thread id drawn anew whatever the caller supplied
ThreadIdOrUuid_always(tid) == "uuid" \o ToString(nextUuid + 1)

\* thread_id = thread_id or str(uuid.uuid4())
ThreadIdOrUuid(tid) == IF tid = NoThread THEN "uuid" \o ToString(nextUuid + 1) ELSE tid

\* the text of the message a caller sends with request r
UserText(r) == "q" \o ToString(r)

EngineInit ==
    /\ checkpoint = [t \in ThreadIds |-> <<>>]
    /\ pc = [r \in Requests |-> "idle"]
    /\ thread = [r \in Requests |-> NoThread]
    /\ supplied = [r \in Requests |-> NoThread]
    /\ human = [r \in Requests |-> HumanMessage("")]
    /\ messages = [r \in Requests |-> <<>>]
    /\ result = [r \in Requests |-> NoResult]
    /\ nextCall = 1
    /\ nextUuid = 0
    /\ loaded = [r \in Requests |-> <<>>]
    /\ lastPut = [r \in Requests |-> <<>>]

\* process_message returns: its locals are gone, the pair is with the caller
Return(r, text, tid, e) ==
    /\ pc' = [pc EXCEPT ![r] = "done"]
    /\ result' = [result EXCEPT ![r] = [response |-> text, thread_id |-> tid, error |-> e]]
    /\ messages' = [messages EXCEPT ![r] = <<>>]
    /\ human' = [human EXCEPT ![r] = HumanMessage("")]
    /\ loaded' = [loaded EXCEPT ![r] = <<>>]
    /\ lastPut' = [lastPut EXCEPT ![r] = <<>>]

\* except branch of process_message (lines 236-249)
Except(r, e) == Return(r, ErrorResponse(e), thread[r], e)

\* a checkpointer that stores the channel under every thread id
PutCheckpoint_global(r, msgs) ==
    /\ checkpoint' = [t \in ThreadIds |-> msgs]
    /\ lastPut' = [lastPut EXCEPT ![r] = msgs]
    /\ messages' = [messages EXCEPT ![r] = msgs]

\* a node's update applied to the channel and stored by the checkpointer
\* under the thread id of the config
PutCheckpoint(r, msgs) ==
    /\ checkpoint' = [checkpoint EXCEPT ![thread[r]] = msgs]
    /\ lastPut' = [lastPut EXCEPT ![r] = msgs]
    /\ messages' = [messages EXCEPT ![r] = msgs]

\* process_message up to graph.invoke reading the thread's checkpoint
\* (lines 185-211); ok = FALSE: the read of the state store raises
Begin(r) ==
    /\ pc[r] = "idle"
    /\ \A q \in Requests : q < r => pc[q] # "idle"
    /\ \E tid \in SuppliedThreads \cup {NoThread}, ok \in BOOLEAN :
        LET t == ThreadIdOrUuid(tid) IN
        /\ supplied' = [supplied EXCEPT ![r] = tid]
        /\ thread' = [thread EXCEPT ![r] = t]
        /\ nextUuid' = IF tid = NoThread THEN nextUuid + 1 ELSE nextUuid
        /\ IF ok
           THEN /\ human' = [human EXCEPT ![r] = HumanMessage(UserText(r))]
                /\ messages' = [messages EXCEPT ![r] = checkpoint[t]]
                /\ loaded' = [loaded EXCEPT ![r] = checkpoint[t]]
                /\ lastPut' = [lastPut EXCEPT ![r] = checkpoint[t]]
                /\ pc' = [pc EXCEPT ![r] = "input"]
                /\ UNCHANGED result
           ELSE Return(r, ErrorResponse("store"), t, "store")
    /\ UNCHANGED <<checkpoint, nextCall, searchVars, stateVars, restVars>>

\* graph.invoke applies the input to the channel and stores the checkpoint
PutInput(r) ==
    /\ pc[r] = "input"
    /\ \E ok \in BOOLEAN :
        IF ok
        THEN /\ PutCheckpoint(r, add_messages(messages[r], <<human[r]>>))
             /\ pc' = [pc EXCEPT ![r] = "call_model"]
             /\ UNCHANGED <<result, human, loaded>>
        ELSE /\ Except(r, "store")
             /\ UNCHANGED checkpoint
    /\ UNCHANGED <<thread, supplied, nextCall, nextUuid, searchVars, stateVars, restVars>>

\* node call_model: llm_with_tools.invoke(ModelMessages(messages[r])) returns
\* `response`; then the checkpoint, then the edge
ModelStep(r, response, ok) ==
    LET msgs == add_messages(messages[r], call_model(response)) IN
    /\ nextCall' = nextCall + Len(response.tool_calls)
    /\ IF ~ok
       THEN /\ Except(r, "store")
            /\ UNCHANGED checkpoint
       ELSE IF tools_condition(msgs) = "tools"
       THEN /\ PutCheckpoint(r, msgs)
            /\ pc' = [pc EXCEPT ![r] = "tools"]
            /\ UNCHANGED <<result, human, loaded>>
       ELSE /\ checkpoint' = [checkpoint EXCEPT ![thread[r]] = msgs]
            /\ Return(r, Response(msgs), thread[r], "none")
    /\ UNCHANGED <<thread, supplied, nextUuid, searchVars, stateVars, restVars>>

\* the model answers with a plain assistant message
ModelAnswers(r) ==
    /\ pc[r] = "call_model"
    /\ \E text \in AiTexts, ok \in BOOLEAN : ModelStep(r, AIMessage(text, <<>>), ok)

\* the model answers with an assistant message carrying tool calls
ModelRequestsTools(r) ==
    /\ pc[r] = "call_model"
    /\ \E n \in 1..MaxCallsPerTurn, ok \in BOOLEAN :
        /\ nextCall + n - 1 <= MaxCallIds
        /\ ModelStep(r, AIMessage("", NewCallIds(n)), ok)

\* llm_with_tools.invoke(ModelMessages(messages[r])) raises (timeout, provider error)
ModelRaises(r) ==
    /\ pc[r] = "call_model"
    /\ Except(r, "llm")
    /\ UNCHANGED <<checkpoint, thread, supplied, nextCall, nextUuid, searchVars, stateVars, restVars>>

\* node tools, then the checkpoint, then the edge back to call_model
Tools(r) ==
    /\ pc[r] = "tools"
    /\ \E outcome \in SearchOutcomes, uid \in ToolUserIds, ok \in BOOLEAN :
        LET outs == [i \in 1..Len(Last(messages[r]).tool_calls) |-> retrieve(outcome, uid)] IN
        IF ok
        THEN /\ PutCheckpoint(r, add_messages(messages[r], ToolNode(messages[r], outs)))
             /\ pc' = [pc EXCEPT ![r] = "call_model"]
             /\ UNCHANGED <<result, human, loaded>>
        ELSE /\ Except(r, "store")
             /\ UNCHANGED checkpoint
    /\ UNCHANGED <<thread, supplied, nextCall, nextUuid, searchVars, stateVars, restVars>>

\* ------------------------------------------------------------ vector stores
Stores == {"mongodb_local", "mongodb_atlas", "faiss"}
Owners == {"u1", "u2"}             \* user_id stored in a record's metadata
NoUser == "none"                   \* user_id=None at a call
Vectors == {<<0, 0>>, <<1, 0>>, <<0, 1>>, <<1, 1>>}   \* embeddings

Dot(a, b) == a[1] * b[1] + a[2] * b[2]

Sign(x) == IF x > 0 THEN 1 ELSE IF x < 0 THEN -1 ELSE 0

Min(a, b) == IF a < b THEN a ELSE b

\* the quotient taken without the test of the norms at line 209
Similarity_nozero(q, d) ==
    [num |-> Sign(Dot(q, d)) * Dot(q, d) * Dot(q, d), den |-> Dot(q, q) * Dot(d, d)]

\* cosine similarity of lines 204-212, kept as the signed square
\* num/den of dot/(|q|*|d|); 0 when a norm is 0
Similarity(q, d) ==
    IF Dot(q, q) = 0 \/ Dot(d, d) = 0
    THEN [num |-> 0, den |-> 1]
    ELSE [num |-> Sign(Dot(q, d)) * Dot(q, d) * Dot(q, d), den |-> Dot(q, q) * Dot(d, d)]

\* s1 < s2 as numbers
Less(s1, s2) == s1.num * s2.den < s2.num * s1.den

ZeroScore == [num |-> 0, den |-> 1]

Hit(i, s) == [idx |-> i, score |-> s]

\* a filter that lets every record through
Matching_all(user_id) == 1..Len(docs)

\* positions of the records a filter on user_id lets through
Matching(user_id) ==
    {i \in 1..Len(docs) : user_id = NoUser \/ docs[i].owner = user_id}

\* the positions of a set, ascending, as a sequence
RECURSIVE Ascending(_)
Ascending(S) ==
    IF S = {} THEN <<>>
    ELSE LET m == CHOOSE x \in S : \A y \in S : x <= y IN <<m>> \o Ascending(S \ {m})

\* a sort that puts x in front of the hits of equal score
InsertDescending_front(sorted, x) ==
    LET p == Cardinality({i \in 1..Len(sorted) : Less(x.score, sorted[i].score)})
    IN SubSeq(sorted, 1, p) \o <<x>> \o SubSeq(sorted, p + 1, Len(sorted))

\* list.sort(key=score, reverse=True) is stable: x goes behind every hit
\* whose score is not smaller
InsertDescending(sorted, x) ==
    LET p == Cardinality({i \in 1..Len(sorted) : ~Less(sorted[i].score, x.score)})
    IN SubSeq(sorted, 1, p) \o <<x>> \o SubSeq(sorted, p + 1, Len(sorted))

RECURSIVE SortDescending(_)
SortDescending(hits) ==
    IF hits = <<>> THEN <<>>
    ELSE InsertDescending(SortDescending(SubSeq(hits, 1, Len(hits) - 1)), hits[Len(hits)])

Take(s, k) == SubSeq(s, 1, Min(k, Len(s)))

\* a manual filter that keeps every hit
KeepOwner_all(hits, user_id) == hits

\* the hits of seq in the order given that satisfy the owner test
RECURSIVE KeepOwner(_, _)
KeepOwner(hits, user_id) ==
    IF hits = <<>> THEN <<>>
    ELSE (IF docs[hits[1].idx].owner = user_id THEN <<hits[1]>> ELSE <<>>)
         \o KeepOwner(Tail(hits), user_id)

\* every record of a set of positions scored against the query, in insertion order
Scored(S, q) ==
    LET a == Ascending(S) IN [j \in 1..Len(a) |-> Hit(a[j], Similarity(q, docs[a[j]].embedding))]

\* MongoDBVectorStore._local_similarity_search
local_similarity_search(q, k, user_id) ==
    Take(SortDescending(Scored(Matching(user_id), q)), k)

\* the aggregation pipeline of similarity_search on Atlas: $vectorSearch with
\* limit k runs first, $match on metadata.user_id after it; the service is
\* taken to rank exactly; the documents it returns carry no "score" field
atlas_pipeline(q, k, user_id) ==
    LET top == Take(SortDescending(Scored(1..Len(docs), q)), k)
        kept == IF user_id # NoUser THEN KeepOwner(top, user_id) ELSE top
    IN [j \in 1..Len(kept) |-> Hit(kept[j].idx, ZeroScore)]

\* FAISS.similarity_search of the library, taken to rank exactly: the k
\* nearest of the records the filter lets through
faiss_library_search(q, k, user_id) ==
    Take(SortDescending(Scored(Matching(user_id), q)), k)

\* lines 83-86 of FAISSVectorStore.similarity_search: the unfiltered search
\* with limit k, then the manual filter on its results
faiss_fallback_search(q, k, user_id) ==
    Take(KeepOwner(faiss_library_search(q, k, NoUser), user_id), k)

NoSearch == [ran |-> FALSE, path |-> "none", q |-> <<0, 0>>, k |-> 0, user_id |-> NoUser,
             hits |-> <<>>, raised |-> FALSE, signalled |-> FALSE]

\* a call of similarity_search as its caller sees it: the list it got back
\* (hits) and whether an exception reached it (signalled); raised tells that
\* an exception was raised inside the call.  Every exit of both methods is a
\* return: the except branches (mongodb_store.py 169-173, faiss_store.py
\* 97-101) print the exception and return [], so nothing reaches the caller
Searched(path, q, k, user_id, hits, raised) ==
    [ran |-> TRUE, path |-> path, q |-> q, k |-> k, user_id |-> user_id,
     hits |-> hits, raised |-> raised, signalled |-> FALSE]

SearchIdle ==
    /\ store = "mongodb_local"
    /\ docs = <<>>
    /\ search = NoSearch

\* add_documents(documents, user_id) of either store with one document;
\* ok = FALSE: the embedding or the insertion raises and nothing is stored;
\* the result of an earlier search is with its caller by then
AddDocuments ==
    /\ Len(docs) < MaxDocs
    /\ \E o \in Owners, e \in Vectors, ok \in BOOLEAN :
        docs' = IF ok THEN Append(docs, [owner |-> o, embedding |-> e]) ELSE docs
    /\ search' = NoSearch
    /\ UNCHANGED <<store, engineVars, stateVars, restVars>>

\* MongoDBVectorStore.similarity_search(query, k, user_id); ok = FALSE: the
\* query embedding or the collection raises, the except branch returns []
MongoSearch ==
    /\ ~search.ran
    /\ store \in {"mongodb_local", "mongodb_atlas"}
    /\ \E q \in Vectors, k \in 1..MaxK, user_id \in Owners \cup {NoUser}, ok \in BOOLEAN :
        search' =
            IF ~ok THEN Searched(store, q, k, user_id, <<>>, TRUE)
            ELSE IF store = "mongodb_atlas"
            THEN Searched("atlas", q, k, user_id, atlas_pipeline(q, k, user_id), FALSE)
            ELSE Searched("local", q, k, user_id, local_similarity_search(q, k, user_id), FALSE)
    /\ UNCHANGED <<store, docs, engineVars, stateVars, restVars>>

\* FAISSVectorStore.similarity_search(query, k, user_id); filterOk = FALSE: the
\* filtered search raises and the fallback runs; ok = FALSE: the search (or
\* the fallback) raises and the outer except branch returns []
FaissSearch ==
    /\ ~search.ran
    /\ store = "faiss"
    /\ \E q \in Vectors, k \in 1..MaxK, user_id \in Owners \cup {NoUser},
          filterOk \in BOOLEAN, ok \in BOOLEAN :
        search' =
            IF docs = <<>> THEN Searched("faiss_empty", q, k, user_id, <<>>, FALSE)
            ELSE IF ~ok THEN Searched("faiss", q, k, user_id, <<>>, TRUE)
            ELSE IF user_id # NoUser /\ ~filterOk
            THEN Searched("faiss_fallback", q, k, user_id,
                          faiss_fallback_search(q, k, user_id), FALSE)
            ELSE Searched("faiss", q, k, user_id, faiss_library_search(q, k, user_id), FALSE)
    /\ UNCHANGED <<store, docs, engineVars, stateVars, restVars>>

\* ------------------------------------------------- MongoDBCheckpointer
StoreThreads == {"t" \o ToString(i) : i \in 1..NStoreThreads}

\* states handed to put: ordered message lists
SavedStates ==
    {<<>>,
     <<HumanMessage("q1")>>,
     <<HumanMessage("q1"), AIMessage("ans", <<>>)>>,
     <<AIMessage("ans", <<>>), HumanMessage("q1")>>}

\* what get returns: None, or a state
None == [some |-> FALSE, state |-> <<>>]

Some(state) == [some |-> TRUE, state |-> state]

NoStoreOp == [op |-> "none", thread_id |-> "", result |-> None, error |-> "none"]

\* a document as put writes it: thread_id and state, no field conversation_id
StateDoc(thread_id, state) == [thread_id |-> thread_id, state |-> state]

\* the documents the filter {"thread_id": thread_id} matches
Matches(thread_id) == {d \in conversations : d.thread_id = thread_id}

\* collection.find_one({"thread_id": thread_id}) when a document matches
find_one(thread_id) == CHOOSE d \in conversations : d.thread_id = thread_id

\* MongoDBCheckpointer.get: the stored state, None for an unknown thread id;
\* the list comes back from the collection in the order it was stored
get(thread_id) ==
    IF Matches(thread_id) # {} THEN Some(find_one(thread_id).state) ELSE None

\* whether inserting one more document without the field conversation_id is
\* refused: the unique index keeps such a document under the key null, and
\* every document written by put is one
DuplicateKey == uniqueIndex /\ conversations # {}

StoreIdle ==
    /\ conversations = {}
    /\ uniqueIndex = FALSE
    /\ saved = [t \in StoreThreads |-> None]
    /\ storeOp = NoStoreOp

\* init_database, lines 46-49 and 60-61: create_index(conversation_id,
\* unique=True) on db.conversations, the collection of the checkpointer
\* (CHAT_HISTORY_COLLECTION); building the index over two documents without
\* the field raises, which is caught and printed
InitDatabase ==
    /\ ~uniqueIndex
    /\ uniqueIndex' = (Cardinality(conversations) <= 1)
    /\ UNCHANGED <<conversations, saved, storeOp, engineVars, searchVars, restVars>>

\* MongoDBCheckpointer.put(thread_id, state): update_one with upsert=True;
\* a matching document gets the new state, otherwise one is inserted, which
\* the unique index may refuse with DuplicateKeyError
CheckpointerPut ==
    /\ \E t \in StoreThreads, state \in SavedStates :
        IF Matches(t) # {}
        THEN /\ conversations' = (conversations \ {find_one(t)}) \cup {StateDoc(t, state)}
             /\ saved' = [saved EXCEPT ![t] = Some(state)]
             /\ storeOp' = [op |-> "put", thread_id |-> t, result |-> None, error |-> "none"]
        ELSE IF DuplicateKey
        THEN /\ storeOp' = [op |-> "put", thread_id |-> t, result |-> None,
                            error |-> "DuplicateKeyError"]
             /\ UNCHANGED <<conversations, saved>>
        ELSE /\ conversations' = conversations \cup {StateDoc(t, state)}
             /\ saved' = [saved EXCEPT ![t] = Some(state)]
             /\ storeOp' = [op |-> "put", thread_id |-> t, result |-> None, error |-> "none"]
    /\ UNCHANGED <<uniqueIndex, engineVars, searchVars, restVars>>

\* MongoDBCheckpointer.get(thread_id)
CheckpointerGet ==
    /\ \E t \in StoreThreads :
        storeOp' = [op |-> "get", thread_id |-> t, result |-> get(t), error |-> "none"]
    /\ UNCHANGED <<conversations, uniqueIndex, saved, engineVars, searchVars, restVars>>

\* how the try block of retrieve (lines 45-88) sees a call of
\* similarity_search: an exception takes it to the except branch, an empty
\* list to the branch of line 55, anything else to the formatting
RetrieveOutcome(s) ==
    IF s.signalled THEN "raise" ELSE IF s.hits = <<>> THEN "empty" ELSE "found"

\* the text retrieve returns for the last search of the store
RetrieveOutput == retrieve(RetrieveOutcome(search), search.user_id)

\* ----------------------------------------- MongoDBVectorStore.add_documents
\* where a call can raise: nowhere, in embed_documents (line 58), in
\* insert_many (line 87) or in count_documents (line 91).  insert_many is
\* ordered: a write error at record j >= 1 is a BulkWriteError raised after
\* records 1..j-1 were written; record 0 stands for a connection failure
\* before anything was written
NoFault == [at |-> "none", record |-> 0]

\* the faults of a call with n records; with no records the call returns at
\* line 47 before it does anything
AddFaults(n) ==
    IF n = 0 THEN {NoFault}
    ELSE {NoFault, [at |-> "embed_documents", record |-> 0],
          [at |-> "count_documents", record |-> 0]}
         \cup {[at |-> "insert_many", record |-> j] : j \in 0..n}

\* how many of the n records of a call are in the collection when it ends
Committed(n, fault) ==
    IF fault.at = "embed_documents" THEN 0
    ELSE IF fault.at = "insert_many"
    THEN (IF fault.record = 0 THEN 0 ELSE fault.record - 1)
    ELSE n

\* the collection after insert_many(recs) under a fault
insert_many(collection, recs, fault) ==
    collection \o SubSeq(recs, 1, Committed(Len(recs), fault))

NoCount == -1                      \* an exception without details.nInserted

\* the exception the except branch re-raises (lines 94-98) under a fault
AddException(fault) ==
    IF fault.at = "none" THEN "none"
    ELSE IF fault.at = "embed_documents" THEN "OpenAIError"
    ELSE IF fault.at = "insert_many" /\ fault.record > 0 THEN "BulkWriteError"
    ELSE "ConnectionFailure"

\* what the caller of add_documents has in hand when the call ends: whether
\* it raised, the exception, and the nInserted a BulkWriteError carries.
\* The method returns None, so a call that returns hands over nothing else
AddOutcome(n, fault) ==
    [n |-> n, raised |-> fault.at # "none", exception |-> AddException(fault),
     nInserted |-> IF AddException(fault) = "BulkWriteError"
                   THEN fault.record - 1 ELSE NoCount]

\* a call that has not happened
NoAdd == [ran |-> FALSE]

\* a call that has happened: its outcome and, as history, the length of the
\* collection before the call and the number of records the call left in it
Added(n, fault, first) ==
    [ran |-> TRUE, outcome |-> AddOutcome(n, fault), first |-> first,
     committed |-> Committed(n, fault)]

InsertIdle ==
    /\ add = NoAdd
    /\ prevAdd = NoAdd

\* add_documents(documents, user_id) with n documents of one owner
InsertCall ==
    /\ \E n \in 0..MaxInsert, o \in Owners, e \in Vectors :
        /\ Len(docs) + n <= MaxDocs
        /\ \E fault \in AddFaults(n) :
            /\ docs' = insert_many(docs, [i \in 1..n |-> [owner |-> o, embedding |-> e]], fault)
            /\ add' = Added(n, fault, Len(docs))
    /\ prevAdd' = add
    /\ search' = NoSearch
    /\ UNCHANGED <<store, engineVars, stateVars, ingestVars, chat, loop, apiVars>>

\* --------------------------------------------- process_and_store_documents
Texts == {"a", "b"}                \* the texts of chunks

\* the sequences over S of a length from lo to hi
SeqsOf(S, lo, hi) == UNION {[1..n -> S] : n \in lo..hi}

\* page_content of a document, as the pieces the text splitter cuts it into
Contents == SeqsOf(Texts, 0, MaxChunksPerDoc)

\* the argument documents of a call
DocumentLists == SeqsOf(Contents, 1, MaxDocsPerCall)

\* the embedding embed_documents returns for a text
Embedding(text) == IF text = "a" THEN <<1, 0>> ELSE <<0, 1>>

\* text_splitter.split_documents(documents) (line 31): the chunks of the
\* documents from i on, in order; split_from (history) is the position of the
\* document a chunk was cut from.  The chunks copy the metadata the documents
\* have at this point, which holds no document_id yet
RECURSIVE SplitFrom(_, _)
SplitFrom(documents, i) ==
    IF i > Len(documents) THEN <<>>
    ELSE [j \in 1..Len(documents[i]) |-> [text |-> documents[i][j], split_from |-> i]]
         \o SplitFrom(documents, i + 1)

split_documents(documents) == SplitFrom(documents, 1)

\* chunk.page_content in doc.page_content (line 74)
Contains(content, text) == \E j \in DOMAIN content : content[j] = text

\* lines 72-76: the first document of the call that contains the chunk's text
ParentOf(documents, text) ==
    CHOOSE i \in DOMAIN documents :
        /\ Contains(documents[i], text)
        /\ \A h \in 1..(i - 1) : ~Contains(documents[h], text)

\* lines 70-92: the chunks with the metadata step 4 gives them;
\* document_ids[i] is the id of document i
AssignParents(chunks, documents, document_ids, user_id) ==
    [c \in DOMAIN chunks |->
        [text |-> chunks[c].text, split_from |-> chunks[c].split_from,
         parent_document_id |-> document_ids[ParentOf(documents, chunks[c].text)],
         user_id |-> user_id, chunk_index |-> c - 1]]

\* chunk_count_by_doc.get(doc_id, 0) (lines 89-92, 131)
chunk_count_by_doc(chunks, doc_id) ==
    Cardinality({c \in DOMAIN chunks : chunks[c].parent_document_id = doc_id})

\* the vector record add_documents builds of a chunk (lines 72-80)
VectorDoc(chunk) ==
    [owner |-> chunk.user_id, embedding |-> Embedding(chunk.text), text |-> chunk.text,
     parent_document_id |-> chunk.parent_document_id, split_from |-> chunk.split_from]

\* doc_record of lines 45-53
NewRecord(user_id) ==
    [processing_status |-> "processing", chunk_count |-> 0, user_id |-> user_id]

\* step 3 (lines 39-64) on an empty collection: the records in db.documents
\* when the insert_one of document failAt raised (0: none did); the ids
\* uuid4() gives are the positions 1, 2, ...
StoreOriginals(n, user_id, failAt) ==
    [i \in 1..(IF failAt = 0 THEN n ELSE failAt - 1) |-> NewRecord(user_id)]

\* step 6 (lines 130-145): every record is set to completed with its chunk
\* count, but for those whose update_one raised (the except branch at line
\* 144 prints a warning and goes on)
SetCompleted(recs, chunks, failed) ==
    [i \in DOMAIN recs |->
        IF i \in failed THEN recs[i]
        ELSE [recs[i] EXCEPT !.processing_status = "completed",
                             !.chunk_count = chunk_count_by_doc(chunks, i)]]

\* a cleanup that marks the records completed
SetError_completed(recs, stopAt) ==
    [i \in DOMAIN recs |->
        IF stopAt = 0 \/ i < stopAt
        THEN [recs[i] EXCEPT !.processing_status = "completed"] ELSE recs[i]]

\* the cleanup of the except branch (lines 162-178): the records are set to
\* error in the order of document_ids, until an update_one raises (stopAt; 0:
\* none does), which ends the loop at line 177
SetError(recs, stopAt) ==
    [i \in DOMAIN recs |->
        IF stopAt = 0 \/ i < stopAt
        THEN [recs[i] EXCEPT !.processing_status = "error"] ELSE recs[i]]

\* the records a cleanup that stopped at stopAt has updated
UpdatedByCleanup(recs, stopAt) == {i \in DOMAIN recs : stopAt = 0 \/ i < stopAt}

\* no call has happened
NoUpload == [called |-> FALSE]

\* a call that ended: its arguments; whether it raised HTTPException (line
\* 180) and with which status; the document ids it drew; the chunks it handed
\* to the vector store (none if step 5 was not reached); and, as history, the
\* records whose last update_one was applied
Uploaded(documents, user_id, raised, document_ids, chunks, updated) ==
    [called |-> TRUE, documents |-> documents, user_id |-> user_id, raised |-> raised,
     status_code |-> IF raised THEN 500 ELSE 200, document_ids |-> document_ids,
     chunks |-> chunks, updated |-> updated]

IngestIdle ==
    /\ upload = NoUpload
    /\ records = <<>>

\* process_and_store_documents(documents, user_id) in which the insert_one of
\* document failAt raises (line 59): the except branch runs the cleanup over
\* the ids drawn so far and raises
StoreOriginalsFails ==
    /\ ~upload.called
    /\ \E documents \in DocumentLists, user_id \in Owners :
        \E failAt \in 1..Len(documents) : \E stopAt \in 0..failAt :
            LET recs == StoreOriginals(Len(documents), user_id, failAt)
            IN /\ records' = SetError(recs, stopAt)
               /\ upload' = Uploaded(documents, user_id, TRUE, [i \in 1..failAt |-> i], <<>>,
                                     UpdatedByCleanup(recs, stopAt))
    /\ UNCHANGED <<engineVars, searchVars, stateVars, insertVars, chat, loop, apiVars>>

\* the call in which add_documents raises (line 126): the records it wrote
\* stay in the collection, the cleanup runs and the call raises
AddChunksFails ==
    /\ ~upload.called
    /\ \E documents \in DocumentLists, user_id \in Owners :
        LET n == Len(documents)
            document_ids == [i \in 1..n |-> i]
            chunks == AssignParents(split_documents(documents), documents, document_ids, user_id)
            recs == StoreOriginals(n, user_id, 0)
        IN \E fault \in AddFaults(Len(chunks)) \ {NoFault} : \E stopAt \in 0..n :
            /\ docs' = insert_many(docs, [c \in DOMAIN chunks |-> VectorDoc(chunks[c])], fault)
            /\ add' = Added(Len(chunks), fault, Len(docs))
            /\ records' = SetError(recs, stopAt)
            /\ upload' = Uploaded(documents, user_id, TRUE, document_ids, chunks,
                                  UpdatedByCleanup(recs, stopAt))
    /\ prevAdd' = add
    /\ search' = NoSearch
    /\ UNCHANGED <<store, engineVars, stateVars, chat, loop, apiVars>>

\* the call in which steps 3 to 5 succeed: step 6 updates the records (the
\* update_one of those in failed raises) and the call returns document_ids
StoreCompletes ==
    /\ ~upload.called
    /\ \E documents \in DocumentLists, user_id \in Owners :
        LET n == Len(documents)
            document_ids == [i \in 1..n |-> i]
            chunks == AssignParents(split_documents(documents), documents, document_ids, user_id)
            recs == StoreOriginals(n, user_id, 0)
        IN \E failed \in SUBSET (1..n) :
            /\ docs' = insert_many(docs, [c \in DOMAIN chunks |-> VectorDoc(chunks[c])], NoFault)
            /\ add' = Added(Len(chunks), NoFault, Len(docs))
            /\ records' = SetCompleted(recs, chunks, failed)
            /\ upload' = Uploaded(documents, user_id, FALSE, document_ids, chunks,
                                  (1..n) \ failed)
    /\ prevAdd' = add
    /\ search' = NoSearch
    /\ UNCHANGED <<store, engineVars, stateVars, chat, loop, apiVars>>

\* ------------------------------------------------- retrieval in a chat request
SIMILARITY_SEARCH_K == 4           \* settings.SIMILARITY_SEARCH_K

\* no chat request has run the tool
NoChat == [ran |-> FALSE]

ChatIdle == chat = NoChat

\* POST /chat of user_id that reaches the tools node.  chat_endpoint calls
\* process_message(request.message, request.thread_id) (chat.py 21-24): the
\* request's user_id is not handed on, and process_message puts its own
\* user_id parameter only into additional_kwargs of the HumanMessage.  The
\* arguments of retrieve(query, user_id) are those of the tool call the
\* language model wrote (arg; "none": it left user_id out).  chat keeps the
\* request's user, the filter the search ran with and the owners of the
\* records whose text went into the tool's output
ChatRetrieve ==
    /\ ~chat.ran
    /\ \E user_id \in Owners, q \in Vectors, arg \in Owners \cup {NoUser}, ok \in BOOLEAN :
        LET hits == IF ~ok THEN <<>>
                    ELSE IF store = "mongodb_atlas"
                    THEN atlas_pipeline(q, SIMILARITY_SEARCH_K, arg)
                    ELSE local_similarity_search(q, SIMILARITY_SEARCH_K, arg)
        IN /\ search' = Searched(IF store = "mongodb_atlas" THEN "atlas" ELSE "local",
                                 q, SIMILARITY_SEARCH_K, arg, hits, ~ok)
           /\ chat' = [ran |-> TRUE, user_id |-> user_id, filter |-> arg,
                       owners |-> [j \in 1..Len(hits) |-> docs[hits[j].idx].owner]]
    /\ UNCHANGED <<store, docs, engineVars, stateVars, insertVars, ingestVars, loop, apiVars>>

\* ------------------------------------------------------ one run of the graph
\* graph.invoke(input, config) at line 211 with the config of line 193, which
\* sets thread_id only: the run is cut after the default number of supersteps
RecursionLimit == 25

\* no run has started
NoLoop == [pc |-> "idle"]

LoopIdle == loop = NoLoop

\* a run that is never cut
OutOfSteps_never(steps) == FALSE

\* no superstep is left for the run: the graph raises GraphRecursionError
OutOfSteps(steps) == steps >= RecursionLimit

\* the except branch of process_message (lines 236-249) ends the run
LoopExcept == [loop EXCEPT !.pc = "done", !.response = "fallback"]

\* process_message starts a run in which the model requests tools in the
\* first planned turns and answers plainly in the next
LoopStart ==
    /\ loop.pc = "idle"
    /\ \E n \in 0..MaxTurns :
        loop' = [pc |-> "call_model", planned |-> n, turns |-> 0, steps |-> 0,
                 response |-> "none"]
    /\ UNCHANGED <<engineVars, searchVars, stateVars, insertVars, ingestVars, chat, apiVars>>

\* superstep of call_model followed by tools_condition; a plain message ends
\* the run and process_message returns its content (lines 214-234)
LoopModel ==
    /\ loop.pc = "call_model"
    /\ loop' = IF OutOfSteps(loop.steps) THEN LoopExcept
               ELSE IF loop.turns < loop.planned
               THEN [loop EXCEPT !.pc = "tools", !.steps = @ + 1]
               ELSE [loop EXCEPT !.pc = "done", !.steps = @ + 1, !.response = "answer"]
    /\ UNCHANGED <<engineVars, searchVars, stateVars, insertVars, ingestVars, chat, apiVars>>

\* superstep of the tools node; its edge leads back to call_model
LoopTools ==
    /\ loop.pc = "tools"
    /\ loop' = IF OutOfSteps(loop.steps) THEN LoopExcept
               ELSE [loop EXCEPT !.pc = "call_model", !.steps = @ + 1, !.turns = @ + 1]
    /\ UNCHANGED <<engineVars, searchVars, stateVars, insertVars, ingestVars, chat, apiVars>>

\* --------------------------------------------------------- the HTTP handlers
ConversationIds == {"c" \o ToString(i) : i \in 1..NConversations}
FileTypes == {"pdf", "txt", "md", "docx"}       \* how file.filename ends

\* no request has been answered
NoHttp == [handler |-> "none"]

\* a request that was answered: the handler and the conversation and user of
\* the request ("none" where it names none); what was raised inside its try
\* block ("none", "HTTPException" with its status code, or "Exception" for
\* anything else); the status of the response; and, as history, the
\* conversation records the request removed
Responded(handler, conversation_id, user_id, exception, code, status, deleted) ==
    [handler |-> handler, conversation_id |-> conversation_id, user_id |-> user_id,
     exception |-> exception, code |-> code, status |-> status, deleted |-> deleted]

\* the status of the response when the try block of a handler raised: the
\* clause "except Exception" catches HTTPException too (it is an Exception)
\* and raises HTTPException(status_code=500)
ExceptStatus(exception, code) == 500

\* the status of the response of a handler
ResponseStatus(exception, code) ==
    IF exception = "none" THEN 200 ELSE ExceptStatus(exception, code)

ApiIdle ==
    /\ convs = {}
    /\ http = NoHttp

\* db.conversations.find_one of the handlers, as the set of records that match
FindConversation(conversation_id) == {c \in convs : c.conversation_id = conversation_id}

FindConversationOf(conversation_id, user_id) ==
    {c \in convs : c.conversation_id = conversation_id /\ c.user_id = user_id}

\* POST /new-conversation (chat.py 109-135); ok = FALSE: the database raises
NewConversation ==
    /\ \E user_id \in Owners, ok \in BOOLEAN :
        \E id \in ConversationIds \ {c.conversation_id : c \in convs} :
            IF ok
            THEN /\ convs' = convs \cup {[conversation_id |-> id, user_id |-> user_id]}
                 /\ http' = Responded("new_conversation", id, user_id, "none", 0,
                                     ResponseStatus("none", 0), {})
            ELSE /\ convs' = convs
                 /\ http' = Responded("new_conversation", id, user_id, "Exception", 0,
                                     ResponseStatus("Exception", 0), {})
    /\ UNCHANGED <<engineVars, searchVars, stateVars, insertVars, ingestVars, chat, loop>>

\* GET /conversations/{conversation_id}/messages (chat.py 138-166)
GetConversationMessages ==
    /\ \E conversation_id \in ConversationIds, ok \in BOOLEAN :
        LET exception == IF ~ok THEN "Exception"
                         ELSE IF FindConversation(conversation_id) = {} THEN "HTTPException"
                         ELSE "none"
            code == IF exception = "HTTPException" THEN 404 ELSE 0
        IN http' = Responded("get_conversation_messages", conversation_id, NoUser, exception, code,
                            ResponseStatus(exception, code), {})
    /\ UNCHANGED <<convs, engineVars, searchVars, stateVars, insertVars, ingestVars, chat, loop>>

\* DELETE /conversations/{conversation_id}?user_id= (chat.py 169-193)
DeleteConversation ==
    /\ \E conversation_id \in ConversationIds, user_id \in Owners, ok \in BOOLEAN :
        LET exception == IF ~ok THEN "Exception"
                         ELSE IF FindConversationOf(conversation_id, user_id) = {}
                         THEN "HTTPException"
                         ELSE "none"
            code == IF exception = "HTTPException" THEN 404 ELSE 0
            deleted == IF exception = "none" THEN FindConversation(conversation_id) ELSE {}
        IN /\ convs' = convs \ deleted
           /\ http' = Responded("delete_conversation", conversation_id, user_id, exception, code,
                               ResponseStatus(exception, code), deleted)
    /\ UNCHANGED <<engineVars, searchVars, stateVars, insertVars, ingestVars, chat, loop>>

\* POST /upload-file (documents.py 52-88); ok = FALSE: reading, loading or
\* process_and_store_documents raises
UploadFile ==
    /\ \E type \in FileTypes, user_id \in Owners, ok \in BOOLEAN :
        LET exception == IF type \notin {"pdf", "txt", "md"} THEN "HTTPException"
                         ELSE IF ~ok THEN "Exception"
                         ELSE "none"
            code == IF exception = "HTTPException" THEN 400 ELSE 0
        IN http' = Responded("upload_file", "none", user_id, exception, code,
                            ResponseStatus(exception, code), {})
    /\ UNCHANGED <<convs, engineVars, searchVars, stateVars, insertVars, ingestVars, chat, loop>>

RestIdle == InsertIdle /\ IngestIdle /\ ChatIdle /\ LoopIdle /\ ApiIdle

Init == EngineInit /\ SearchIdle /\ StoreIdle /\ RestIdle

Next ==
    \E r \in Requests :
        \/ Begin(r)
        \/ PutInput(r)
        \/ ModelAnswers(r)
        \/ ModelRequestsTools(r)
        \/ ModelRaises(r)
        \/ Tools(r)

Spec == Init /\ [][Next]_vars

SearchInit ==
    /\ EngineInit
    /\ store \in Stores
    /\ docs = <<>>
    /\ search = NoSearch
    /\ StoreIdle
    /\ RestIdle

SearchNext ==
    \/ AddDocuments
    \/ MongoSearch
    \/ FaissSearch

SearchSpec == SearchInit /\ [][SearchNext]_vars

CheckpointerNext ==
    \/ InitDatabase
    \/ CheckpointerPut
    \/ CheckpointerGet

CheckpointerSpec == Init /\ [][CheckpointerNext]_vars

InsertSpec == Init /\ [][InsertCall]_vars

IngestNext ==
    \/ StoreOriginalsFails
    \/ AddChunksFails
    \/ StoreCompletes

IngestSpec == Init /\ [][IngestNext]_vars

ChatInit ==
    /\ EngineInit
    /\ store \in {"mongodb_local", "mongodb_atlas"}
    /\ docs = <<>>
    /\ search = NoSearch
    /\ StoreIdle
    /\ RestIdle

ChatNext ==
    \/ AddDocuments
    \/ ChatRetrieve

ChatSpec == ChatInit /\ [][ChatNext]_vars

LoopNext ==
    \/ LoopStart
    \/ LoopModel
    \/ LoopTools

\* every model, tool and store call returns: a superstep that can run does
LoopSpec == Init /\ [][LoopNext]_vars /\ WF_vars(LoopModel) /\ WF_vars(LoopTools)

ApiNext ==
    \/ NewConversation
    \/ GetConversationMessages
    \/ DeleteConversation
    \/ UploadFile

ApiSpec == Init /\ [][ApiNext]_vars

\* ======================================================= claims on the engine
InFlight(r) == pc[r] \in {"input", "call_model", "tools"}

\* request r takes a step of process_message
Acts(r) == pc'[r] # pc[r]

\* request r leaves process_message through the except branch
Raised(r) == pc'[r] = "done" /\ result'[r].error # "none"

HasToolCalls(m) == m.type = "ai" /\ Len(m.tool_calls) > 0

PlainAnswer(m) == m.type = "ai" /\ Len(m.tool_calls) = 0

\* tool call k of message i of h is answered by a later tool message of h
Answered(h, i, k) ==
    \E j \in (i + 1)..Len(h) : h[j].type = "tool" /\ h[j].tool_call_id = h[i].tool_calls[k]

\* no assistant message of h carries a tool call that h leaves unanswered
NoDanglingCalls(h) ==
    \A i \in 1..Len(h) : \A k \in 1..Len(h[i].tool_calls) : Answered(h, i, k)

\* C1: from the model turn the request goes to Terminal exactly when the
\* model's message carries no tool calls and to the tool turn exactly when it
\* carries some; from the tool turn it goes back to the model turn; the graph
\* is entered at the model turn; a step that raises ends the request instead.
C1_Transitions ==
    [][\A r \in Requests : Acts(r) /\ ~Raised(r) =>
        /\ pc[r] = "input" => pc'[r] = "call_model"
        /\ pc[r] = "call_model" =>
              \/ pc'[r] = "tools" /\ HasToolCalls(Last(messages'[r]))
              \/ pc'[r] = "done" /\ PlainAnswer(Last(checkpoint'[thread[r]]))
        /\ pc[r] = "tools" => pc'[r] = "call_model"
        /\ pc[r] = "done" => FALSE]_vars

\* a request went model turn -> tool turn -> model turn -> Terminal
C1_Witness ==
    \E r \in Requests :
        /\ pc[r] = "done" /\ result[r].error = "none"
        /\ result[r].thread_id \in GeneratedThreads
        /\ \E i \in 1..Len(checkpoint[result[r].thread_id]) :
              checkpoint[result[r].thread_id][i].type = "tool"

\* C2: in the part of the history a request has produced, an assistant
\* message carrying calls c1..cn is either the last message, with the tool
\* turn pending, or is followed directly by exactly n tool messages, the
\* i-th carrying the id ci; so the model turn never starts in between.
C2_ToolTurnAnswersAll ==
    \A r \in Requests : InFlight(r) =>
        \A i \in (Len(loaded[r]) + 1)..Len(messages[r]) :
            LET h == messages[r]
                n == Len(h[i].tool_calls)
            IN HasToolCalls(h[i]) =>
                \/ i = Len(h) /\ pc[r] = "tools"
                \/ /\ i + n <= Len(h)
                   /\ \A j \in 1..n : /\ h[i + j].type = "tool"
                                      /\ h[i + j].tool_call_id = h[i].tool_calls[j]
                   /\ i + n < Len(h) => h[i + n + 1].type # "tool"

\* the model turn is reached again after a message with two calls was answered
C2_Witness ==
    \E r \in Requests :
        /\ pc[r] = "call_model"
        /\ Len(messages[r]) >= 3
        /\ Last(messages[r]).type = "tool"
        /\ Len(messages[r][Len(messages[r]) - 2].tool_calls) = 2

\* C3: when process_message returns from its try branch, the text returned is
\* the content of the last message of the history stored under the request's
\* thread id, that message is an assistant message without tool calls, and
\* the stored history is the whole history of the request: what it loaded,
\* the user message, and everything appended up to the answer.
C3_ResponseIsLastStored ==
    [][\A r \in Requests : (Acts(r) /\ pc'[r] = "done" /\ result'[r].error = "none") =>
        LET h == checkpoint'[thread[r]] IN
        /\ Len(h) > 0
        /\ result'[r].response = Last(h).content
        /\ PlainAnswer(Last(h))
        /\ result'[r].thread_id = thread[r]
        /\ SubSeq(h, 1, Len(h) - 1) = messages[r]
        /\ IsPrefix(loaded[r] \o <<human[r]>>, h)]_vars

\* a request returned an answer after a tool round trip
C3_Witness ==
    \E r \in Requests :
        /\ pc[r] = "done" /\ result[r].error = "none"
        /\ result[r].response = "ans"
        /\ result[r].thread_id \in GeneratedThreads
        /\ Len(checkpoint[result[r].thread_id]) >= 4
        /\ Last(checkpoint[result[r].thread_id]).content = "ans"

\* C4: in every stored history, every tool message carries the id of a tool
\* call of an earlier assistant message of that history, and no id is
\* carried by two tool messages.
C4_ToolCallPairing ==
    \A t \in ThreadIds :
        LET h == checkpoint[t] IN
        \A i \in 1..Len(h) : h[i].type = "tool" =>
            /\ \E j \in 1..(i - 1) :
                  /\ h[j].type = "ai"
                  /\ \E k \in 1..Len(h[j].tool_calls) : h[j].tool_calls[k] = h[i].tool_call_id
            /\ \A i2 \in 1..Len(h) :
                  (i2 # i /\ h[i2].type = "tool") => h[i2].tool_call_id # h[i].tool_call_id

\* a request that failed left a history with two answered calls behind
C4_Witness ==
    \E r \in Requests :
        /\ pc[r] = "done" /\ result[r].error # "none"
        /\ result[r].thread_id \in GeneratedThreads
        /\ Cardinality({i \in 1..Len(checkpoint[result[r].thread_id]) :
                           checkpoint[result[r].thread_id][i].type = "tool"}) = 2

\* C5: whenever the model is about to be invoked, its input holds no
\* assistant message with an unanswered tool call (stated for a request that
\* is alone in flight, so that the history it loaded is one an earlier,
\* finished request left behind).
C5_ModelInputNeverDangling ==
    \A r \in Requests :
        (pc[r] = "call_model" /\ \A q \in Requests \ {r} : ~InFlight(q))
        => NoDanglingCalls(ModelMessages(messages[r]))

\* C6: when the model invocation of a request raises, what the request has
\* stored, if no other request has overwritten it, is the history it loaded
\* plus exactly the incoming user message.
C6_FailedTurnStoresOnlyUser ==
    [][\A r \in Requests :
        (pc[r] = "call_model" /\ Raised(r) /\ result'[r].error = "llm"
            /\ checkpoint'[thread[r]] = lastPut[r])
        => checkpoint'[thread[r]] = loaded[r] \o <<human[r]>>]_vars

\* C7: every call of process_message that has ended has returned a pair,
\* also on each failure of the model or the state store; the thread id of the
\* pair is the supplied one when one was supplied, and otherwise a freshly
\* generated, non-empty id no other request uses.
C7_AlwaysReturnsPair ==
    \A r \in Requests : pc[r] = "done" =>
        /\ result[r] # NoResult
        /\ result[r].error # "none" => result[r].response = ErrorResponse(result[r].error)
        /\ result[r].thread_id = thread[r]
        /\ supplied[r] # NoThread => result[r].thread_id = supplied[r]
        /\ supplied[r] = NoThread =>
              /\ result[r].thread_id \in GeneratedThreads
              /\ result[r].thread_id # ""
              /\ \A q \in Requests \ {r} : thread[q] # result[r].thread_id

\* three kinds of return: a failed call without thread id, a failed call with
\* one, an answered call
C7_Witness ==
    /\ \E r \in Requests : /\ pc[r] = "done" /\ result[r].error = "llm"
                           /\ supplied[r] = NoThread
    /\ \E r \in Requests : /\ pc[r] = "done" /\ result[r].error = "store"
                           /\ supplied[r] = "t1"

FirstTurnOnNewThread(r) ==
    pc[r] = "call_model" /\ loaded[r] = <<>> /\ Len(messages[r]) = 1

\* C9 as stated: before the first model turn on a new thread the stored
\* history is [system instruction, user message].
C9_StoredStartsWithSystem ==
    \A r \in Requests :
        (FirstTurnOnNewThread(r) /\ checkpoint[thread[r]] = lastPut[r])
        => checkpoint[thread[r]] = <<SystemMessage, human[r]>>

\* C9 amended: on a new thread the first model turn is invoked with exactly
\* [system instruction, user message], the history stored at that point is
\* [user message], and no stored history holds the system instruction.
C9_SystemInjectedIntoInputOnly ==
    /\ \A r \in Requests : FirstTurnOnNewThread(r) =>
          /\ ModelMessages(messages[r]) = <<SystemMessage, human[r]>>
          /\ lastPut[r] = <<human[r]>>
    /\ \A t \in ThreadIds : \A i \in 1..Len(checkpoint[t]) : checkpoint[t][i].type # "system"

C9_Witness ==
    \E r \in Requests :
        /\ FirstTurnOnNewThread(r)
        /\ thread[r] \in GeneratedThreads
        /\ checkpoint[thread[r]] = <<HumanMessage(UserText(r))>>

\* ================================================= claims on the vector stores
\* the similarity of the record behind hit h to the query of the last search
TrueScore(h) == Similarity(search.q, docs[h.idx].embedding)

\* C10: a search by the local scan or by the FAISS store that did not end in
\* its except branch returns exactly min(k, n) of the n records the owner
\* filter lets through, ordered by non-increasing similarity, and no record
\* left out is strictly more similar than a returned one.
C10_SearchReturnsTopK ==
    (search.ran /\ ~search.raised /\ search.path \in {"local", "faiss", "faiss_fallback", "faiss_empty"}) =>
        LET hits == search.hits
            cand == Matching(search.user_id)
            got == {hits[j].idx : j \in 1..Len(hits)}
        IN /\ Len(hits) = Min(search.k, Cardinality(cand))
           /\ got \subseteq cand
           /\ Cardinality(got) = Len(hits)
           /\ \A j \in 1..(Len(hits) - 1) : ~Less(TrueScore(hits[j]), TrueScore(hits[j + 1]))
           /\ \A i \in cand \ got : \A j \in 1..Len(hits) :
                 ~Less(TrueScore(hits[j]), Similarity(search.q, docs[i].embedding))

\* the records the owner filter of the last search lets through
Candidates ==
    {i \in 1..Len(docs) : search.user_id = NoUser \/ docs[i].owner = search.user_id}

\* the records behind the hits of the last search
Returned == {search.hits[j].idx : j \in 1..Len(search.hits)}

\* C11: a search called with an owner id returns only records stored with
\* that owner id, on every path: local scan, Atlas pipeline, filtered FAISS
\* search, FAISS fallback with the manual filter, empty index, except branch.
C11_OnlyOwnersRecords ==
    (search.ran /\ search.user_id # NoUser) =>
        \A j \in 1..Len(search.hits) :
            /\ search.hits[j].idx \in 1..Len(docs)
            /\ docs[search.hits[j].idx].owner = search.user_id

\* the fallback of the FAISS store answered a search of u1 on a store that
\* holds a record of u2 in front of a record of u1
C11_Witness ==
    /\ search.ran /\ search.path = "faiss_fallback" /\ search.user_id = "u1"
    /\ Len(search.hits) = 1
    /\ Len(docs) >= 2 /\ docs[1].owner = "u2" /\ docs[2].owner = "u1"

\* C12: a search without candidate records (no record at all, or an owner id
\* no record carries) returns the empty list and raises nothing to its caller.
C12_NoCandidatesEmptyList ==
    (search.ran /\ \A i \in 1..Len(docs) :
                      search.user_id # NoUser /\ docs[i].owner # search.user_id) =>
        /\ search.hits = <<>>
        /\ ~search.signalled

\* the local scan ran for u2 on a store that holds records of u1 only
C12_Witness ==
    /\ search.ran /\ search.path = "local" /\ ~search.raised
    /\ search.user_id = "u2"
    /\ Len(docs) >= 2 /\ \A i \in 1..Len(docs) : docs[i].owner = "u1"

\* C13: the score the local scan gives a record is dot/(|q|*|d|) when both
\* norms are non-zero (here: its signed square num/den with den > 0) and 0
\* when a norm is 0; the divisor is never 0; a record equal to a non-zero
\* query scores 1 and a record orthogonal to the query scores 0.
C13_CosineOrZero ==
    (search.ran /\ search.path = "local") =>
        \A j \in 1..Len(search.hits) :
            LET s == search.hits[j].score
                q == search.q
                d == docs[search.hits[j].idx].embedding
            IN /\ s.den > 0
               /\ (Dot(q, q) = 0 \/ Dot(d, d) = 0) => s.num = 0
               /\ (Dot(q, q) # 0 /\ Dot(d, d) # 0) =>
                     /\ s.num * Dot(q, q) * Dot(d, d) = Sign(Dot(q, d)) * Dot(q, d) * Dot(q, d) * s.den
                     /\ q = d => s.num = s.den
               /\ Dot(q, d) = 0 => s.num = 0

\* the local scan scored a record equal to the query and a record of norm 0
C13_Witness ==
    /\ search.ran /\ search.path = "local" /\ search.q = <<1, 0>>
    /\ Len(search.hits) = 2
    /\ docs[search.hits[1].idx].embedding = <<1, 0>>
    /\ docs[search.hits[2].idx].embedding = <<0, 0>>

\* C14: in the result of the local scan, of two candidates of equal similarity
\* the one inserted earlier comes first, and a candidate left out by the limit
\* k was inserted later than every returned record of the same similarity.
C14_TiesByInsertionOrder ==
    (search.ran /\ search.path = "local") =>
        /\ \A j1 \in 1..Len(search.hits) : \A j2 \in (j1 + 1)..Len(search.hits) :
              TrueScore(search.hits[j1]) = TrueScore(search.hits[j2])
              => search.hits[j1].idx < search.hits[j2].idx
        /\ \A i \in Candidates \ Returned : \A j \in 1..Len(search.hits) :
              Similarity(search.q, docs[i].embedding) = TrueScore(search.hits[j])
              => search.hits[j].idx < i

\* three records tie for a query, the limit is 2, the first two are returned
C14_Witness ==
    /\ search.ran /\ search.path = "local" /\ search.k = 2
    /\ Len(docs) = 3
    /\ \A i \in 1..3 : Similarity(search.q, docs[i].embedding) = [num |-> 1, den |-> 1]
    /\ Candidates = {1, 2, 3}
    /\ Returned = {1, 2}

\* C15: a search in which the query embedding or the storage failed signals
\* an error to its caller instead of handing back a list.
C15_FailureIsSignalled ==
    (search.ran /\ search.raised) => search.signalled

\* C16: the text retrieve returns for a search that failed inside the vector
\* store differs from every text it returns for a search that found nothing.
C16_OutageDistinguishable ==
    (search.ran /\ search.raised) =>
        \A u \in Owners \cup {NoUser} : RetrieveOutput # retrieve("empty", u)

\* the texts retrieve returns when no document was found
NoDocumentsTexts ==
    {"No relevant documents found for this query in your personal knowledge base. You may want to upload some documents first.",
     "No relevant documents found for this query in the knowledge base."}

\* C17: the tool turn hands every call's result back as a tool message whose
\* text is not empty, and goes on to the model turn, whose input holds these
\* messages; the text for an empty search is a "no relevant documents found"
\* message and the text for a search that raised is an error message, and
\* the three kinds of text differ.  (A tool turn ends the request only when
\* storing the checkpoint raises.)
C17_ToolTextNeverEmpty ==
    [][\A r \in Requests : (pc[r] = "tools" /\ Acts(r) /\ ~Raised(r)) =>
        LET old == Len(messages[r])
            n == Len(Last(messages[r]).tool_calls)
        IN /\ pc'[r] = "call_model"
           /\ Len(messages'[r]) = old + n
           /\ \A i \in (old + 1)..(old + n) :
                 /\ messages'[r][i].type = "tool"
                 /\ messages'[r][i].content # ""
                 /\ messages'[r][i].content \in
                       {retrieve(o, u) : o \in SearchOutcomes, u \in ToolUserIds}
                 /\ \E j \in 1..Len(ModelMessages(messages'[r])) :
                       ModelMessages(messages'[r])[j] = messages'[r][i]
           /\ \A u \in ToolUserIds :
                 /\ retrieve("empty", u) \in NoDocumentsTexts
                 /\ retrieve("raise", u) \notin NoDocumentsTexts \cup {"", retrieve("found", u)}
                 /\ retrieve("found", u) \notin NoDocumentsTexts \cup {""}]_vars

\* a request is back at the model turn holding the tool message of an empty
\* search and the tool message of a search that raised
C17_Witness ==
    \E r \in Requests :
        /\ pc[r] = "call_model"
        /\ \E i, j \in 1..Len(messages[r]) :
              /\ messages[r][i].type = "tool" /\ messages[r][i].content \in NoDocumentsTexts
              /\ messages[r][j].type = "tool"
              /\ messages[r][j].content = "Error retrieving documents: search failed"

\* ============================================ claims on the state store
\* C18: load(t) returns the list of the last save(t, .) that returned, a save
\* on t leaves what is stored for every other thread id as it is, and no save
\* fails: in particular none fails because of a record of another thread id.
C18_SaveLoadPerThread ==
    /\ \A t \in StoreThreads : get(t) = saved[t]
    /\ storeOp.op = "get" => storeOp.result = saved[storeOp.thread_id]
    /\ storeOp.op = "put" => storeOp.error = "none"

\* ============================================ claims on concurrent requests
\* the tool call ids that occur in a history, as calls or as answers
CallIds(h) ==
    UNION {{h[i].tool_calls[k] : k \in 1..Len(h[i].tool_calls)} : i \in 1..Len(h)}
    \cup {h[i].tool_call_id : i \in {j \in 1..Len(h) : h[j].type = "tool"}}

\* C19: a step of a request on thread t leaves the stored history of every
\* other thread as it is and starts from the stored history of t alone; and
\* the input of a model turn of the request holds no user message of a
\* request on another thread and no tool call id stored under another thread.
C19_ThreadIsolation ==
    /\ [][\A r \in Requests : Acts(r) =>
            /\ \A t \in ThreadIds : t = thread'[r] \/ checkpoint'[t] = checkpoint[t]
            /\ (pc[r] = "idle" /\ pc'[r] = "input") => messages'[r] = checkpoint[thread'[r]]]_vars
    /\ [](\A r \in Requests : pc[r] = "call_model" =>
            LET input == ModelMessages(messages[r])
                ids == CallIds(input)
            IN
            /\ \A q \in Requests : (pc[q] # "idle" /\ thread[q] # thread[r]) =>
                  LET asked == HumanMessage(UserText(q))
                  IN \A i \in 1..Len(input) : input[i] # asked
            /\ ids = {} \/ \A t \in ThreadIds : t = thread[r] \/ ids \cap CallIds(checkpoint[t]) = {})

\* two requests on different threads are at the model turn at once, each
\* after a tool round trip stored under its own thread id
C19_Witness ==
    \E r, q \in Requests :
        /\ pc[r] = "call_model" /\ pc[q] = "call_model"
        /\ thread[r] # thread[q]
        /\ checkpoint[thread[r]] = messages[r] /\ Len(messages[r]) >= 3
        /\ checkpoint[thread[q]] = messages[q] /\ Len(messages[q]) >= 3

\* C20: once two requests on the same thread id have both ended, neither by a
\* failure of the state store, the history stored under the thread id holds
\* no assistant tool call without its tool answer.
C20_SameThreadConsistent ==
    \A r, q \in Requests :
        (/\ r # q
         /\ pc[r] = "done" /\ pc[q] = "done"
         /\ thread[r] = thread[q]
         /\ result[r].error # "store" /\ result[q].error # "store")
        => NoDanglingCalls(checkpoint[thread[r]])

\* ============================== claims on failures while a request is handled
\* C21 as stated: a tool turn in which the vector index failed ends the
\* request, and the stored history is then the one the request loaded.
C21_IndexFailureEndsRequest ==
    [][\A r \in Requests :
        (/\ pc[r] = "tools" /\ Acts(r) /\ ~Raised(r)
         /\ Last(messages'[r]).content = retrieve("raise", "none"))
        => /\ pc'[r] = "done"
           /\ checkpoint'[thread[r]] = loaded[r]]_vars

\* C21 amended: a failure of the vector index does not end the request.  A
\* tool turn whose checkpoint is stored goes on to the model turn whatever
\* the search did; the tool's text (the error text, when the exception
\* reached retrieve) is stored as tool message behind what the request
\* loaded, its user message and the tool call, and nothing is returned yet.
C21_IndexFailureContinues ==
    [][\A r \in Requests : (pc[r] = "tools" /\ Acts(r) /\ ~Raised(r)) =>
        /\ pc'[r] = "call_model"
        /\ result'[r] = NoResult
        /\ Last(messages'[r]).type = "tool"
        /\ Last(messages'[r]).content \in {retrieve(o, u) : o \in SearchOutcomes, u \in ToolUserIds}
        /\ checkpoint'[thread[r]] = messages'[r]
        /\ IsPrefix(loaded[r] \o <<human[r]>>, checkpoint'[thread[r]])
        /\ Len(checkpoint'[thread[r]]) >= Len(loaded[r]) + 3]_vars

\* after a search that raised, a request is at the model turn and its thread's
\* stored history ends with the tool message carrying the error text
C21_Witness ==
    \E r \in Requests :
        /\ pc[r] = "call_model"
        /\ Last(messages[r]).type = "tool"
        /\ Last(messages[r]).content = "Error retrieving documents: search failed"
        /\ checkpoint[thread[r]] = messages[r]
        /\ Len(checkpoint[thread[r]]) = Len(loaded[r]) + 3

\* what the local scan returns for the arguments of the last search
LocalResult == local_similarity_search(search.q, search.k, search.user_id)

\* C23: a search answered by the Atlas pipeline returns the list the local
\* scan returns for the same records, query, k and owner filter: the same
\* records in the same order with the same scores.
C23_AtlasEqualsLocal ==
    (search.ran /\ ~search.raised /\ search.path = "atlas") => search.hits = LocalResult

\* C25: the responses of any two requests that ended in the except branch are
\* the same text, whatever their errors were.
C25_FallbackIsFixed ==
    \A r, q \in Requests :
        (/\ pc[r] = "done" /\ result[r].error # "none"
         /\ pc[q] = "done" /\ result[q].error # "none")
        => result[r].response = result[q].response

\* C26: a model invocation that raises on an input holding an unanswered tool
\* call (the orphaned-tool-call error of the provider) does not end the
\* request: the model is invoked once more before any fallback is returned.
C26_OrphanErrorIsRetried ==
    [][\A r \in Requests :
        (/\ pc[r] = "call_model"
         /\ ~NoDanglingCalls(ModelMessages(messages[r]))
         /\ \A q \in Requests \ {r} : ~InFlight(q))
        => ~(Raised(r) /\ result'[r].error = "llm")]_vars

\* ============================================ claims on ingestion and the API
\* the positions in the collection of the records a call committed
CommittedPositions(a) == (a.first + 1)..(a.first + a.committed)

\* the positions a search over the whole collection without owner filter returns
Visible(q) ==
    LET hits == local_similarity_search(q, Len(docs), NoUser)
    IN {hits[j].idx : j \in DOMAIN hits}

\* C22: after a call of add_documents that raised, the records of the call
\* written before the failure are in the collection and a later search
\* returns them, and the number of records the call committed follows from
\* what the caller has in hand: two calls that raised with the same outcome
\* committed the same number of records.
C22_CommittedCountFromOutcome ==
    /\ (add.ran /\ add.outcome.raised) =>
        /\ CommittedPositions(add) \subseteq DOMAIN docs
        /\ \A q \in Vectors : CommittedPositions(add) \subseteq Visible(q)
    /\ (/\ add.ran /\ prevAdd.ran
        /\ add.outcome.raised
        /\ add.outcome = prevAdd.outcome)
       => add.committed = prevAdd.committed

\* C24: whatever the number n of turns in which the model requests tools, the
\* run reaches its end with the plain message's content as the response.
C24_AnswersForEveryN ==
    \A n \in 0..MaxTurns :
        (loop.pc = "call_model" /\ loop.planned = n)
        ~> (loop.pc = "done" /\ loop.response = "answer")

\* C24 amended: every run ends; it ends with the plain message's content,
\* after n tool turns and 2n+1 supersteps, exactly when 2n+1 does not exceed
\* the recursion limit, and with the fallback of the except branch otherwise.
C24_AnswersWithinRecursionLimit ==
    /\ (loop.pc \in {"call_model", "tools"}) ~> (loop.pc = "done")
    /\ [](loop.pc = "done" =>
            /\ loop.response \in {"answer", "fallback"}
            /\ loop.response = "answer" <=> 2 * loop.planned + 1 <= RecursionLimit
            /\ loop.response = "answer" =>
                (loop.turns = loop.planned /\ loop.steps = 2 * loop.planned + 1))

\* a run answered after the most tool turns the recursion limit leaves room for
C24_Witness ==
    /\ loop.pc = "done"
    /\ loop.response = "answer"
    /\ loop.planned > 0
    /\ loop.steps = RecursionLimit

\* C27: the search of a chat request runs with the request's user as owner
\* filter, and every record whose text goes into the tool's output is owned
\* by that user.
C27_SearchFilteredByRequestOwner ==
    chat.ran =>
        /\ chat.filter = chat.user_id
        /\ \A j \in DOMAIN chat.owners : chat.owners[j] = chat.user_id

\* the chunks of a call that were cut from document i
ChunksSplitFrom(i) == {c \in DOMAIN upload.chunks : upload.chunks[c].split_from = i}

\* C28: every chunk handed to the vector store carries the id of the document
\* it was cut from as parent_document_id, and after a call that returned, the
\* chunk_count of every record whose update was applied is the number of
\* stored chunks cut from that document.
C28_ParentIsSourceDocument ==
    upload.called =>
        /\ \A c \in DOMAIN upload.chunks :
            upload.chunks[c].parent_document_id
                = upload.document_ids[upload.chunks[c].split_from]
        /\ ~upload.raised =>
            \A i \in upload.updated :
                records[i].chunk_count = Cardinality(ChunksSplitFrom(i))

\* all chunks of the call are in the vector store
AllChunksAdded == add.ran /\ add.committed = Len(upload.chunks)

\* C29: once the call has returned or raised, every record it created is
\* completed or error: completed only if all chunks were added, error if the
\* call failed.
C29_NoRecordLeftProcessing ==
    upload.called =>
        \A i \in DOMAIN records :
            /\ records[i].processing_status \in {"completed", "error"}
            /\ records[i].processing_status = "completed" => (~upload.raised /\ AllChunksAdded)
            /\ upload.raised => records[i].processing_status = "error"

\* C29 amended: once the call has returned or raised, every record whose
\* status update was applied is completed (the call returned) or error (the
\* call raised); a record whose update_one raised, or that the cleanup did
\* not reach, is left in processing with chunk_count 0; and a record is
\* completed only if the call returned and all chunks were added.
C29_StatusOfUpdatedRecords ==
    upload.called =>
        \A i \in DOMAIN records :
            /\ i \in upload.updated =>
                records[i].processing_status = (IF upload.raised THEN "error" ELSE "completed")
            /\ i \notin upload.updated =>
                (records[i].processing_status = "processing" /\ records[i].chunk_count = 0)
            /\ records[i].processing_status = "completed" => (~upload.raised /\ AllChunksAdded)

\* a call raised after some chunks were written, the cleanup set one record
\* to error and failed on the next, which is left in processing
C29_Witness ==
    /\ upload.called /\ upload.raised
    /\ add.ran /\ add.committed > 0
    /\ \E i, k \in DOMAIN records :
        /\ records[i].processing_status = "error"
        /\ records[k].processing_status = "processing"

\* C30: a handler whose try block raised HTTPException answers with the status
\* of that exception (404 or 400), and a delete that found no conversation of
\* the user removed nothing.
C30_ClientErrorsKeepStatus ==
    http.handler # "none" =>
        /\ http.exception = "HTTPException" => http.status = http.code
        /\ (http.handler = "delete_conversation" /\ http.exception # "none")
            => http.deleted = {}

====
